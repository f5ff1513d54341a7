--------------------------- MODULE MCVnpShipment ---------------------------
(* MCVnpShipment: two dialogs open on one seller order, a cancellation and a fair  *)
(* cron.  MCVnpPoll: one purchase, one cancellation and the cron.                  *)
EXTENDS VnpShipment, TLC

CONSTANTS g1, p1, p2, k1, k2

MCOneGroup == p1 :> g1 @@ p2 :> g1
MCTwoKeys == p1 :> k1 @@ p2 :> k2

MCOnePurchase == p1 :> g1
MCItsKey == p1 :> k1
=============================================================================
