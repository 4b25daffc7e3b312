---------------------------- MODULE MCChaosControl ----------------------------
(***************************************************************************)
(* Two admins whose POSTs can overlap, and one business client: requests   *)
(* share nothing but the setting.  The posts are off (with both numbers    *)
(* out of range), slow only, slow and always failing (from out of range),  *)
(* and sometimes failing without delay.                                    *)
(***************************************************************************)
EXTENDS ChaosControl

CONSTANTS a1, a2, r

MCAdmins == {a1, a2}
MCRequests == {r}
MCMaxLatency == 2
MCFullRatio == 2

post(enabled, latency, ratio) == [enabled |-> enabled, latency |-> latency, ratio |-> ratio]
MCPosts == {post(FALSE, -1, 3), post(TRUE, 1, -1), post(TRUE, 3, 3), post(TRUE, 0, 1)}
===============================================================================
