---------------------------- MODULE MCRequestChain ----------------------------
(***************************************************************************)
(* Two concurrent requests, on the same route or on different ones, of     *)
(* each of the three classes; handlers write a success, a 4xx or a 5xx.    *)
(***************************************************************************)
EXTENDS RequestChain

CONSTANTS r1, r2, users, chaos, health

MCRequests == {r1, r2}
MCRoutes == {users, chaos, health}
MCClass == [t \in MCRoutes |->
               IF t = users THEN "business" ELSE IF t = chaos THEN "control" ELSE "plain"]
MCCodes == {200, 404, 500}
===============================================================================
